---- MODULE Spec2Model ----
(***************************************************************************)
(* fixed_vector<T, CAPACITY> (src/fixed_vector.hpp): a fixed-capacity      *)
(* sequence over a std::array<T, CAPACITY> plus a size_t logical size.     *)
(*                                                                         *)
(* Object layout (lines 29-33): _capacity, _current_size, _buf.  A slot    *)
(* index outside [0, CAPACITY) is undefined behaviour (std::array's        *)
(* operator[] does not check).  The model gives such an access every       *)
(* outcome a build produces:                                               *)
(*   - the run aborts (a hardened or sanitized standard library traps on   *)
(*     the index, or the walk leaves mapped memory);                       *)
(*   - the access lands on storage the container does not own: a load      *)
(*     yields an arbitrary value, a store leaves the container as it was   *)
(*     (also what an optimized build does that keeps the size in a         *)
(*     register across the store);                                         *)
(*   - the slot directly ahead of _buf[0], index SIZE_MAX (that is -1),    *)
(*     is where _current_size lives: a load there yields the size, and a   *)
(*     store there overwrites the size when T is word sized.               *)
(***************************************************************************)
EXTENDS Integers, Sequences, FiniteSets, TLC

\* ------------------------------------------------------------------ bounds
\* The template parameter CAPACITY (line 24); static_assert keeps it > 0.
CAPACITY == 3

\* size_t is modelled SizeBits wide: arithmetic on _current_size is modulo
\* SizeMod, so that 0 - 1 wraps to SIZE_MAX as it does in the program.
SizeBits == 16

\* How many operations in a row are followed on a container whose size has
\* left [0, CAPACITY] (each such operation can move the size further away).
MaxWild == 1

SizeMod == 2 ^ SizeBits

SIZE_MAX == SizeMod - 1

\* A value of T larger than any legal size.
BigVal == CAPACITY + 2

\* The values of the element type T; 0 is T{} (value initialization).
Values == {0, 1, BigVal}

\* The physical slots of _buf.
Idx == 0 .. (CAPACITY - 1)

\* The two build modes: FIXED_VECTOR_NOEXCEPT undefined / defined.
Modes == {"checked", "unchecked"}

\* Positions handed to operator[]: every slot and one past the last.
Positions == 0 .. CAPACITY

\* ------------------------------------------------------- memory accesses
\* m is a machine state [size, buf, ok]; ok = FALSE once the run aborted.

Abort(m) == [m EXCEPT !.ok = FALSE]

\* A size so large that a loop bounded by it walks off mapped memory.
Huge(n) == n >= SizeMod \div 2

\* The abort outcome of touching slot i (none for a slot of the array).
Faults(m, i) == IF i < CAPACITY THEN {} ELSE {Abort(m)}

\* The values a read of this->_buf[i] can yield: the slot; at index SIZE_MAX
\* the logical size stored there (when it is a value of T); anything elsewhere.
Load(m, i) ==
    IF i < CAPACITY THEN {m.buf[i]}
    ELSE IF i = SIZE_MAX /\ m.size \in Values THEN {m.size}
    ELSE Values

\* The machine states after this->_buf[i] = x.
Store(m, i, x) ==
    IF i < CAPACITY
    THEN {[m EXCEPT !.buf[i] = x]}
    ELSE {m, Abort(m)} \cup (IF i = SIZE_MAX THEN {[m EXCEPT !.size = x]} ELSE {})

\* this->_buf[i] = x on every machine state of M that is still running.
StoreAll(M, i, x) == UNION {IF m.ok THEN Store(m, i, x) ELSE {m} : m \in M}

\* this->_buf[dst] = this->_buf[src]
CopySlot(m, dst, src) ==
    Faults(m, src) \cup UNION {Store(m, dst, x) : x \in Load(m, src)}

\* The same on every machine state of M that is still running.
CopySlotAll(M, dst, src) ==
    UNION {IF m.ok THEN CopySlot(m, dst, src) ELSE {m} : m \in M}

\* temp = _buf[i]; _buf[i] = _buf[j]; _buf[j] = temp   (lines 203-205)
SwapSlots(m, i, j) ==
    Faults(m, i) \cup Faults(m, j) \cup
    UNION {UNION {StoreAll(Store(m, i, y), j, t) : y \in Load(m, j)}
           : t \in Load(m, i)}

Dec(n) == (n + SizeMod - 1) % SizeMod

Inc(n) == (n + 1) % SizeMod

\* ------------------------------------------------------------ the shifts
RECURSIVE RightShiftFrom(_, _)
\* for (i = _current_size; i > 0; --i) _buf[i] = _buf[i-1];   (line 44)
RightShiftFrom(M, i) ==
    IF i = 0 THEN M
    ELSE RightShiftFrom(CopySlotAll(M, i, i - 1), i - 1)

\* ++_current_size, then the loop from the new size down to 1.
unsafe_right_shift_by_one(m) ==
    LET n == Inc(m.size) IN
    IF Huge(n) THEN {Abort(m)}
    ELSE RightShiftFrom({[m EXCEPT !.size = n]}, n)

\* The slot indices unsafe_right_shift_by_one reads or writes: the loop of
\* line 44 writes slot i and reads slot i-1 for i from the new size down to 1.
right_shift_slots(m) == UNION {{i, i - 1} : i \in 1 .. Inc(m.size)}

RECURSIVE LeftShiftFrom(_, _)
\* for (i = 1; i < _current_size; ++i) _buf[i-1] = _buf[i];   (line 55)
LeftShiftFrom(m, i) ==
    IF ~m.ok \/ ~(i < m.size) THEN {m}
    ELSE IF Huge(m.size) THEN {Abort(m)}
    ELSE UNION {LeftShiftFrom(n, i + 1) : n \in CopySlot(m, i - 1, i)}

\* The loop, then --_current_size (size_t: 0 - 1 wraps).
unsafe_left_shift_by_one(m) ==
    {IF n.ok THEN [n EXCEPT !.size = Dec(n.size)] ELSE n : n \in LeftShiftFrom(m, 1)}

\* ------------------------------------------------------------ the methods
\* Every method maps a machine state to the set of its outcomes: the machine
\* state after the call, the value returned (<<>> for none) and the exception
\* thrown ("none" for a normal return).

Out(m, ret, err) == [size |-> m.size, buf |-> m.buf, ok |-> m.ok, ret |-> ret, err |-> err]

\* throw: the statement is left before any member is written.
Throw(m, e) == {Out(m, <<>>, e)}

\* A normal return of r, or no return at all when the run aborted.
Return(m, r) == Out(m, IF m.ok THEN r ELSE <<>>, "none")

\* push_back with the capacity test of line 126 left out.
push_back_no_capacity_test(m, val, md) ==
    {Return(IF n.ok THEN [n EXCEPT !.size = Inc(n.size)] ELSE n, <<>>)
     : n \in Store(m, m.size, val)}

\* void push_back(T val)   (lines 125-141)
push_back(m, val, md) ==
    IF m.size = CAPACITY
    THEN IF md = "checked" THEN Throw(m, "length_error") ELSE {Return(m, <<>>)}
    ELSE {Return(IF n.ok THEN [n EXCEPT !.size = Inc(n.size)] ELSE n, <<>>)
          : n \in Store(m, m.size, val)}

\* void push_front(T val)   (lines 146-163)
push_front(m, val, md) ==
    IF m.size = CAPACITY
    THEN IF md = "checked" THEN Throw(m, "length_error") ELSE {Return(m, <<>>)}
    ELSE {Return(n, <<>>)
          : n \in StoreAll(unsafe_right_shift_by_one(m), 0, val)}

\* The slot indices a push_front that passed the capacity test reads or
\* writes: those of the right shift, then slot 0 (line 162).
push_front_slots(m) == right_shift_slots(m) \cup {0}

\* pop_back with the decrement of line 178 left out.
pop_back_no_decrement(m, md) ==
    IF m.size = 0
    THEN IF md = "checked" THEN Throw(m, "length_error") ELSE {Return(m, <<m.buf[0]>>)}
    ELSE {Return(k, <<>>) : k \in Faults(m, Dec(m.size))} \cup
         {Return(m, <<x>>) : x \in Load(m, Dec(m.size))}

\* pop_back with the #else branch of lines 170-176 left out: the emptiness
\* test exists in the checked build only.
pop_back_no_fallback(m, md) ==
    IF md = "checked" /\ m.size = 0
    THEN Throw(m, "length_error")
    ELSE LET n == [m EXCEPT !.size = Dec(m.size)] IN
         {Return(k, <<>>) : k \in Faults(n, n.size)} \cup
         {Return(n, <<x>>) : x \in Load(n, n.size)}

\* T pop_back()   (lines 167-180)
pop_back(m, md) ==
    IF m.size = 0
    THEN IF md = "checked" THEN Throw(m, "length_error") ELSE {Return(m, <<m.buf[0]>>)}
    ELSE LET n == [m EXCEPT !.size = Dec(m.size)] IN
         {Return(k, <<>>) : k \in Faults(n, n.size)} \cup
         {Return(n, <<x>>) : x \in Load(n, n.size)}

\* pop_front with the emptiness test of line 187 left out in every build.
pop_front_no_test(m, md) ==
    {Return(n, <<m.buf[0]>>) : n \in unsafe_left_shift_by_one(m)}

\* T pop_front()   (lines 185-197): the emptiness test is compiled only in
\* checked mode; the unchecked build has no test at all.
pop_front(m, md) ==
    IF md = "checked" /\ m.size = 0
    THEN Throw(m, "length_error")
    ELSE LET val == m.buf[0] IN
         {Return(n, <<val>>) : n \in unsafe_left_shift_by_one(m)}

RECURSIVE ReverseFrom(_, _)
\* for (i = 0; i <= _current_size / 2; ++i) swap _buf[i], _buf[size-1-i]
ReverseFrom(m, i) ==
    IF ~m.ok \/ ~(i <= m.size \div 2) THEN {m}
    ELSE IF Huge(m.size) THEN {Abort(m)}
    ELSE UNION {ReverseFrom(n, i + 1)
                : n \in SwapSlots(m, i, (m.size + SizeMod - 1 - i) % SizeMod)}

\* The slot indices reverse() reads or writes: iteration i of the loop of
\* line 202 swaps slot i with slot size-1-i (size_t arithmetic).
reverse_slots(m) ==
    UNION {{i, (m.size + SizeMod - 1 - i) % SizeMod} : i \in 0 .. (m.size \div 2)}

\* void reverse()   (lines 200-207)
reverse(m) == {Return(n, <<>>) : n \in ReverseFrom(m, 0)}

\* clear() that also value-initializes the storage, as the constructors do.
clear_resets_slots(m) == {Return([m EXCEPT !.size = 0, !.buf = [i \in Idx |-> 0]], <<>>)}

\* void clear()   (line 109)
clear(m) == {Return([m EXCEPT !.size = 0], <<>>)}

\* operator[] with the range test of line 211 written  pos >= size - 1,  which
\* also rejects the last valid position.
subscript_last_rejected(m, pos, md) ==
    IF m.size = 0 \/ pos >= Dec(m.size)
    THEN IF md = "checked" THEN [slot |-> <<>>, err |-> "out_of_range"]
                           ELSE [slot |-> <<0>>, err |-> "none"]
    ELSE IF m.size > CAPACITY
    THEN IF md = "checked" THEN [slot |-> <<>>, err |-> "runtime_error"]
                           ELSE [slot |-> <<0>>, err |-> "none"]
    ELSE [slot |-> <<pos>>, err |-> "none"]

\* T& operator[](size_t pos)   (lines 210-245, and the const twin 248-283):
\* the slot the returned reference names (<<>> when it throws).
subscript(m, pos, md) ==
    IF m.size = 0 \/ pos > Dec(m.size)
    THEN IF md = "checked" THEN [slot |-> <<>>, err |-> "out_of_range"]
                           ELSE [slot |-> <<0>>, err |-> "none"]
    ELSE IF m.size > CAPACITY
    THEN IF md = "checked" THEN [slot |-> <<>>, err |-> "runtime_error"]
                           ELSE [slot |-> <<0>>, err |-> "none"]
    ELSE [slot |-> <<pos>>, err |-> "none"]

\* v[pos] read as a value.
subscript_read(m, pos, md) ==
    LET r == subscript(m, pos, md) IN
    IF r.slot = <<>> THEN Throw(m, r.err) ELSE {Return(m, <<m.buf[r.slot[1]]>>)}

\* v[pos] = val through the mutable overload.
subscript_write(m, pos, val, md) ==
    LET r == subscript(m, pos, md) IN
    IF r.slot = <<>> THEN Throw(m, r.err)
    ELSE {Return([m EXCEPT !.buf[r.slot[1]] = val], <<>>)}

\* constexpr fixed_vector(const fixed_vector& v)   (lines 67-73): the object
\* constructed from src.
copy_construct(src) ==
    {Return([size |-> src.size, buf |-> src.buf, ok |-> TRUE], <<>>)}

\* Copy assignment that copies the logical elements [0, size) only.
copy_assign_logical_only(m, src) ==
    {Return([m EXCEPT !.size = src.size,
                      !.buf = [i \in Idx |-> IF i < src.size THEN src.buf[i] ELSE m.buf[i]]],
            <<>>)}

\* fixed_vector& operator=(const fixed_vector& v)   (lines 286-290)
copy_assign(m, src) ==
    {Return([m EXCEPT !.size = src.size, !.buf = [i \in Idx |-> src.buf[i]]], <<>>)}

\* fixed_vector& operator=(fixed_vector&& v)   (lines 293-297)
move_assign(m, src) ==
    {Return([m EXCEPT !.size = src.size, !.buf = src.buf], <<>>)}

\* cbegin() / cend() as offsets from _buf.data()   (lines 440-447)
cbegin(m) == 0

cend(m) == m.size

RECURSIVE IterateFrom(_, _)
\* The elements a loop  for (it = p; it != cend(); ++it) *it  produces.
IterateFrom(m, p) ==
    IF p = cend(m) THEN <<>> ELSE <<m.buf[p]>> \o IterateFrom(m, p + 1)

\* Iteration from begin() to end()   (lines 429-457)
Iterate(m) == IterateFrom(m, cbegin(m))

BoolVal(b) == IF b THEN 1 ELSE 0

RECURSIVE std_equal(_, _, _, _)
\* std::equal(first1, last1, first2): the possible results, "abort" included.
std_equal(m, d, p, q) ==
    IF p = cend(m) THEN {"true"}
    ELSE IF Huge(cend(m)) THEN {"abort"}
    ELSE (IF p < CAPACITY /\ q < CAPACITY THEN {} ELSE {"abort"}) \cup
         UNION {UNION {IF x = y THEN std_equal(m, d, p + 1, q + 1) ELSE {"false"}
                       : y \in Load(d, q)} : x \in Load(m, p)}

\* operator== comparing the whole arrays instead of the logical ranges.
equals_whole_array(m, d) ==
    {Return(m, <<BoolVal(m.size = d.size /\ m.buf = d.buf)>>)}

\* bool operator==(const fixed_vector& v)   (lines 300-313)
equals(m, d) ==
    IF m.size = d.size
    THEN {IF r = "abort" THEN Return(Abort(m), <<>>) ELSE Return(m, <<BoolVal(r = "true")>>)
          : r \in std_equal(m, d, cbegin(m), cbegin(d))}
    ELSE {Return(m, <<0>>)}

\* -------------------------------------------------------------- the state
VARIABLES
    mode,      \* the build mode the program was compiled in
    v,         \* the container under test: [size, buf]
    w,         \* a second container of the same type, the right-hand operand
    ok,        \* FALSE once the run has aborted
    last,      \* the last call on v: [op, arg, ret, err]
    wild,      \* calls in a row begun with v.size outside [0, CAPACITY]
    abstract,  \* the abstract bounded sequence run beside v: [pure, seq, ret, net]
    streak,    \* <<n>>: the run so far is n pushes on an empty container
    pair       \* the call before the last one: [stage, op, arg, ret, base]

vars == <<mode, v, w, ok, last, wild, abstract, streak, pair>>

\* fixed_vector()   (lines 61-65): size 0, every slot T{}.
DefaultConstructed == [size |-> 0, buf |-> [i \in Idx |-> 0]]

\* explicit fixed_vector(std::array<T, CAPACITY>&& a)   (lines 85-89)
FromArray(a) == [size |-> CAPACITY, buf |-> a]

Constructed == {DefaultConstructed} \cup {FromArray(a) : a \in [Idx -> Values]}

\* Every container whose size respects the data model.
WellFormed == {[size |-> n, buf |-> b] : n \in 0 .. CAPACITY, b \in [Idx -> Values]}

Machine(c) == [size |-> c.size, buf |-> c.buf, ok |-> TRUE]

NoPair == [stage |-> 0, op |-> "none", arg |-> <<>>, ret |-> <<>>, base |-> DefaultConstructed]

\* No abstract run: the calls so far are not all pushes and pops within bounds.
Impure == [pure |-> FALSE, seq |-> <<>>, ret |-> <<>>, net |-> 0]

Init ==
    /\ mode \in Modes
    /\ v \in Constructed
    /\ w = DefaultConstructed
    /\ ok = TRUE
    /\ last = [op |-> "construct", arg |-> <<>>, ret |-> <<>>, err |-> "none"]
    /\ wild = 0
    /\ abstract = IF v.size = 0
                  THEN [pure |-> TRUE, seq |-> <<>>, ret |-> <<>>, net |-> 0]
                  ELSE Impure
    /\ streak = IF v.size = 0 THEN <<0>> ELSE <<>>
    /\ pair = NoPair

\* The abstract sequence after a push of x (at the back or at the front).
AbsPush(x, back, o) ==
    IF abstract.pure /\ Len(abstract.seq) < CAPACITY
    THEN [pure |-> TRUE,
          seq |-> IF back THEN Append(abstract.seq, x) ELSE <<x>> \o abstract.seq,
          ret |-> <<>>,
          net |-> IF o.ok /\ o.err = "none" THEN abstract.net + 1 ELSE abstract.net]
    ELSE Impure

\* The abstract sequence after a pop, and the element it removes.
AbsPop(back, o) ==
    IF abstract.pure /\ Len(abstract.seq) > 0
    THEN LET n == Len(abstract.seq) IN
         [pure |-> TRUE,
          seq |-> IF back THEN SubSeq(abstract.seq, 1, n - 1) ELSE Tail(abstract.seq),
          ret |-> IF back THEN <<abstract.seq[n]>> ELSE <<abstract.seq[1]>>,
          net |-> IF o.ok /\ o.err = "none" THEN abstract.net - 1 ELSE abstract.net]
    ELSE Impure

\* The round-trip record after call op: the second half of the pair begun by
\* the previous call, or the first half of a new one.
PairAfter(op, arg, first) ==
    IF pair.stage = 1 /\ pair.op = first /\ last.op = first
    THEN [pair EXCEPT !.stage = 2]
    ELSE IF op \in {"push_back", "push_front", "reverse"}
    THEN [stage |-> 1, op |-> op, arg |-> arg, ret |-> <<>>, base |-> v]
    ELSE NoPair

\* A call is followed while the run is alive and the bound on calls made on a
\* corrupted size is not used up.
CanCall == ok /\ (v.size > CAPACITY => wild < MaxWild)

\* The effect of outcome o of call op(arg) on the program's variables.
Effect(op, arg, o) ==
    /\ v' = [size |-> o.size, buf |-> o.buf]
    /\ ok' = o.ok
    /\ last' = [op |-> op, arg |-> arg, ret |-> o.ret, err |-> o.err]
    /\ wild' = IF v.size > CAPACITY THEN wild + 1 ELSE 0
    /\ streak' = IF op \in {"push_back", "push_front"} /\ streak # <<>> /\ streak[1] <= CAPACITY
                 THEN <<streak[1] + 1>>
                 ELSE <<>>
    /\ UNCHANGED <<mode, w>>

PushBack ==
    /\ CanCall
    /\ \E x \in Values : \E o \in push_back(Machine(v), x, mode) :
        /\ Effect("push_back", <<x>>, o)
        /\ abstract' = AbsPush(x, TRUE, o)
        /\ pair' = PairAfter("push_back", <<x>>, "none")

PushFront ==
    /\ CanCall
    /\ \E x \in Values : \E o \in push_front(Machine(v), x, mode) :
        /\ Effect("push_front", <<x>>, o)
        /\ abstract' = AbsPush(x, FALSE, o)
        /\ pair' = PairAfter("push_front", <<x>>, "none")

PopBack ==
    /\ CanCall
    /\ \E o \in pop_back(Machine(v), mode) :
        /\ Effect("pop_back", <<>>, o)
        /\ abstract' = AbsPop(TRUE, o)
        /\ pair' = PairAfter("pop_back", <<>>, "push_back")

PopFront ==
    /\ CanCall
    /\ \E o \in pop_front(Machine(v), mode) :
        /\ Effect("pop_front", <<>>, o)
        /\ abstract' = AbsPop(FALSE, o)
        /\ pair' = PairAfter("pop_front", <<>>, "push_front")

Reverse ==
    /\ CanCall
    /\ \E o \in reverse(Machine(v)) :
        /\ Effect("reverse", <<>>, o)
        /\ abstract' = Impure
        /\ pair' = PairAfter("reverse", <<>>, "reverse")

Clear ==
    /\ CanCall
    /\ \E o \in clear(Machine(v)) :
        /\ Effect("clear", <<>>, o)
        /\ abstract' = Impure
        /\ pair' = NoPair

SubscriptRead ==
    /\ CanCall
    /\ \E pos \in Positions : \E o \in subscript_read(Machine(v), pos, mode) :
        /\ Effect("subscript_read", <<pos>>, o)
        /\ abstract' = [abstract EXCEPT !.ret = <<>>]
        /\ pair' = NoPair

SubscriptWrite ==
    /\ CanCall
    /\ \E pos \in Positions, x \in Values :
       \E o \in subscript_write(Machine(v), pos, x, mode) :
        /\ Effect("subscript_write", <<pos, x>>, o)
        /\ abstract' = Impure
        /\ pair' = NoPair

CopyAssign ==
    /\ CanCall
    /\ \E src \in Constructed : \E o \in copy_assign(Machine(v), src) :
        /\ Effect("copy_assign", <<>>, o)
        /\ abstract' = Impure
        /\ pair' = NoPair

MoveAssign ==
    /\ CanCall
    /\ \E src \in Constructed : \E o \in move_assign(Machine(v), src) :
        /\ Effect("move_assign", <<>>, o)
        /\ abstract' = Impure
        /\ pair' = NoPair

Next ==
    \/ PushBack
    \/ PushFront
    \/ PopBack
    \/ PopFront
    \/ Reverse
    \/ Clear
    \/ SubscriptRead
    \/ SubscriptWrite
    \/ CopyAssign
    \/ MoveAssign

Spec == Init /\ [][Next]_vars

\* ---------------------------------------------- comparing two containers
\* operator== is a function of its two operands: SpecEq starts from any two
\* well-formed containers and compares them in either order and with
\* themselves.

InitEq ==
    /\ mode \in Modes
    /\ v \in WellFormed
    /\ w \in WellFormed
    /\ ok = TRUE
    /\ last = [op |-> "construct", arg |-> <<>>, ret |-> <<>>, err |-> "none"]
    /\ wild = 0
    /\ abstract = Impure
    /\ streak = <<>>
    /\ pair = NoPair

\* lhs == rhs, the operands named by arg; the call before it is kept in pair.
Compare(lhs, rhs, arg) ==
    /\ ok
    /\ pair.stage = 0
    /\ \E o \in equals(Machine(lhs), Machine(rhs)) :
        /\ ok' = o.ok
        /\ last' = [op |-> "equals", arg |-> arg, ret |-> o.ret, err |-> o.err]
        /\ pair' = IF last.op = "equals"
                   THEN [stage |-> 1, op |-> last.op, arg |-> last.arg,
                         ret |-> last.ret, base |-> DefaultConstructed]
                   ELSE NoPair
    /\ UNCHANGED <<mode, v, w, wild, abstract, streak>>

EqualsVW == Compare(v, w, <<"v", "w">>)

EqualsWV == Compare(w, v, <<"w", "v">>)

EqualsVV == Compare(v, v, <<"v", "v">>)

NextEq ==
    \/ EqualsVW
    \/ EqualsWV
    \/ EqualsVV

SpecEq == InitEq /\ [][NextEq]_vars

\* ------------------------------------------------- copying a container
\* SpecCopy: a source v (any well-formed container) and a destination w (any
\* constructed container).  w is copy-assigned from v, or constructed anew as
\* a copy of v; then the two are compared, and one of them is mutated.
\* pair.stage is 0 before the copy, 1 after it, 2 after the mutation.

InitCopy ==
    /\ mode \in Modes
    /\ v \in WellFormed
    /\ w \in Constructed
    /\ ok = TRUE
    /\ last = [op |-> "construct", arg |-> <<>>, ret |-> <<>>, err |-> "none"]
    /\ wild = 0
    /\ abstract = Impure
    /\ streak = <<>>
    /\ pair = NoPair

\* The effect of outcome o of a copy of v into w.
Copied(op, o) ==
    /\ w' = [size |-> o.size, buf |-> o.buf]
    /\ ok' = o.ok
    /\ last' = [op |-> op, arg |-> <<"w", "v">>, ret |-> o.ret, err |-> o.err]
    /\ pair' = [NoPair EXCEPT !.stage = 1, !.op = op]
    /\ UNCHANGED <<mode, v, wild, abstract, streak>>

\* w = v;
CopyAssignWV ==
    /\ ok
    /\ pair.stage = 0
    /\ \E o \in copy_assign(Machine(w), v) : Copied("copy_assign", o)

\* fixed_vector w(v);  in place of the old w
CopyConstructWV ==
    /\ ok
    /\ pair.stage = 0
    /\ \E o \in copy_construct(v) : Copied("copy_construct", o)

\* w == v, asked right after the copy.
EqualsAfterCopy ==
    /\ ok
    /\ pair.stage = 1
    /\ last.op # "equals"
    /\ \E o \in equals(Machine(w), Machine(v)) :
        /\ ok' = o.ok
        /\ last' = [op |-> "equals", arg |-> <<"w", "v">>, ret |-> o.ret, err |-> o.err]
    /\ UNCHANGED <<mode, v, w, wild, abstract, streak, pair>>

\* The effect of outcome o of call op(arg) made on the container called name:
\* the call writes the members of that object and of no other.
Mutated(name, op, arg, o) ==
    /\ IF name = "v"
       THEN v' = [size |-> o.size, buf |-> o.buf] /\ w' = w
       ELSE w' = [size |-> o.size, buf |-> o.buf] /\ v' = v
    /\ ok' = o.ok
    /\ last' = [op |-> op, arg |-> <<name>> \o arg, ret |-> o.ret, err |-> o.err]
    /\ pair' = [pair EXCEPT !.stage = 2]
    /\ UNCHANGED <<mode, wild, abstract, streak>>

\* One mutating call on the source or on the copy, after the copy was made.
MutateOne(name) ==
    /\ ok
    /\ pair.stage = 1
    /\ LET c == Machine(IF name = "v" THEN v ELSE w) IN
       \/ \E x \in Values : \E o \in push_back(c, x, mode) :
             Mutated(name, "push_back", <<x>>, o)
       \/ \E o \in pop_back(c, mode) : Mutated(name, "pop_back", <<>>, o)
       \/ \E o \in clear(c) : Mutated(name, "clear", <<>>, o)
       \/ \E pos \in Positions, x \in Values :
          \E o \in subscript_write(c, pos, x, mode) :
             Mutated(name, "subscript_write", <<pos, x>>, o)

MutateSource == MutateOne("v")

MutateCopy == MutateOne("w")

NextCopy ==
    \/ CopyAssignWV
    \/ CopyConstructWV
    \/ EqualsAfterCopy
    \/ MutateSource
    \/ MutateCopy

SpecCopy == InitCopy /\ [][NextCopy]_vars

\* ------------------------------------------------------------ properties

Pushes == {"push_back", "push_front"}

Pops == {"pop_back", "pop_front"}

\* The elements at indices [0, size) of a well-formed container, in order.
Logical(c) == [i \in 1 .. c.size |-> c.buf[i - 1]]

\* C1: in every state reached from a default- or full-array-constructed
\* container by any calls, in either build mode, 0 <= size <= capacity.
C1_SizeWithinCapacity == ok => (0 <= v.size /\ v.size <= CAPACITY)

\* C2: along every run of pushes below capacity and pops above empty from an
\* empty container, the calls return, the logical elements equal the abstract
\* bounded sequence, and every pop returns the element the abstract sequence
\* removes.
C2_RefinesBoundedSequence ==
    abstract.pure =>
        /\ ok
        /\ v.size = Len(abstract.seq)
        /\ Iterate(Machine(v)) = abstract.seq
        /\ (last.op \in Pops => last.ret = abstract.ret)

\* C3: after every such run size() is the number of successful pushes minus
\* the number of pops, and iteration from begin() to end() produces that many
\* elements.
C3_SizeIsNetCount ==
    abstract.pure =>
        /\ ok
        /\ v.size = abstract.net
        /\ Len(Iterate(Machine(v))) = v.size

\* C4: checked mode, from an empty container: each of the first CAPACITY
\* pushes (back or front, in any mix) succeeds, and the push after them throws
\* length_error and leaves size() == CAPACITY and the elements as they were.
C4_FillThenFail ==
    [][(mode = "checked" /\ streak' # <<>> /\ last'.op \in Pushes) =>
         IF streak'[1] <= CAPACITY
         THEN ok' /\ last'.err = "none" /\ v'.size = streak'[1]
         ELSE /\ ok'
              /\ last'.err = "length_error"
              /\ v'.size = CAPACITY
              /\ Logical(v') = Logical(v)]_vars

\* C5: checked mode: pop_back and pop_front on a container of size 0 throw
\* length_error and leave the size and every storage slot unchanged.
C5_PopOnEmptyThrows ==
    [][(mode = "checked" /\ v.size = 0 /\ last'.op \in Pops) =>
         /\ ok'
         /\ last'.err = "length_error"
         /\ last'.ret = <<>>
         /\ v' = v]_vars

C5_Witness ==
    /\ mode = "checked"
    /\ last.op = "pop_front"
    /\ last.err = "length_error"
    /\ v.size = 0
    /\ \E i \in Idx : v.buf[i] # 0

\* C6: after one reverse() on a container of any size in [0, CAPACITY] the
\* size is unchanged and the element at index i is the one that was at index
\* size-1-i.
C6_ReverseOnce ==
    (ok /\ pair.stage = 1 /\ pair.op = "reverse" /\ pair.base.size <= CAPACITY) =>
        /\ v.size = pair.base.size
        /\ \A i \in 0 .. (pair.base.size - 1) :
              v.buf[i] = pair.base.buf[pair.base.size - 1 - i]

\* C7: after two reverse() calls in a row on a container of any size in
\* [0, CAPACITY] the size and the logical sequence are what they were.
C7_ReverseTwice ==
    (ok /\ pair.stage = 2 /\ pair.op = "reverse" /\ pair.base.size <= CAPACITY) =>
        /\ v.size = pair.base.size
        /\ Logical(v) = Logical(pair.base)

\* C8: push_back(x) on a container with size < capacity returns, and the
\* pop_back() that follows it returns x and leaves size() what it was before
\* the push.
C8_PushBackPopBack ==
    (pair.op = "push_back" /\ pair.base.size < CAPACITY) =>
        /\ ok
        /\ pair.stage = 2 => (last.ret = pair.arg /\ v.size = pair.base.size)

C8_Witness ==
    /\ pair.stage = 2
    /\ pair.op = "push_back"
    /\ pair.base.size = CAPACITY - 1
    /\ last.op = "pop_back"
    /\ last.ret = <<1>>
    /\ v.size = CAPACITY - 1

\* C9: push_front(x) on a container with size < capacity (size == capacity - 1
\* included) returns, and the pop_front() that follows it returns x and leaves
\* size() what it was before the push.
C9_PushFrontPopFront ==
    (pair.op = "push_front" /\ pair.base.size < CAPACITY) =>
        /\ ok
        /\ pair.stage = 2 => (last.ret = pair.arg /\ v.size = pair.base.size)

\* The operand of a comparison that arg names.
Operand(name) == IF name = "v" THEN v ELSE w

\* Equal sizes and pairwise equal elements at indices 0 .. size-1.
LogicalEqual(a, b) ==
    a.size = b.size /\ \A i \in 0 .. (a.size - 1) : a.buf[i] = b.buf[i]

\* C10: for two well-formed containers operator== returns true exactly when
\* the sizes are equal and the elements at indices 0 .. size-1 are pairwise
\* equal, whatever the slots at index >= size hold; a container equals itself,
\* and a == b and b == a agree.
C10_Equality ==
    last.op = "equals" =>
        /\ ok
        /\ last.ret = <<BoolVal(LogicalEqual(Operand(last.arg[1]), Operand(last.arg[2])))>>
        /\ (last.arg[1] = last.arg[2] => last.ret = <<1>>)
        /\ (pair.op = "equals" /\ pair.arg = <<last.arg[2], last.arg[1]>>
              => last.ret = pair.ret)

C10_Witness ==
    /\ last.op = "equals"
    /\ last.arg = <<"w", "v">>
    /\ pair.op = "equals"
    /\ pair.arg = <<"v", "w">>
    /\ last.ret = <<1>>
    /\ v.size > 0
    /\ v.size < CAPACITY
    /\ v.buf # w.buf

Subscripts == {"subscript_read", "subscript_write"}

\* C11: checked mode, on a container whose size is within [0, CAPACITY]:
\* operator[](pos) throws out_of_range exactly when size == 0 or pos >= size
\* (position 0 of an empty container included) and then leaves the size and
\* every slot as they were; otherwise a read yields the element at position
\* pos and changes nothing, and a write through the mutable overload changes
\* slot pos and nothing else.
C11_SubscriptRange ==
    [][(mode = "checked" /\ v.size <= CAPACITY /\ last'.op \in Subscripts) =>
         LET pos == last'.arg[1] IN
         /\ ok'
         /\ IF v.size = 0 \/ pos >= v.size
            THEN last'.err = "out_of_range" /\ last'.ret = <<>> /\ v' = v
            ELSE /\ last'.err = "none"
                 /\ IF last'.op = "subscript_read"
                    THEN last'.ret = <<v.buf[pos]>> /\ v' = v
                    ELSE v' = [v EXCEPT !.buf[pos] = last'.arg[2]]]_vars

C11_Witness ==
    /\ mode = "checked"
    /\ last.op = "subscript_write"
    /\ last.err = "none"
    /\ v.size = 2
    /\ last.arg = <<1, BigVal>>
    /\ v.buf[1] = BigVal
    /\ v.buf[2] = 1

\* C12: unchecked mode: push_back and push_front called at size == CAPACITY
\* return normally, discard the value and leave the size and every storage
\* slot unchanged.
C12_PushAtCapacityNoOp ==
    [][(mode = "unchecked" /\ v.size = CAPACITY /\ last'.op \in Pushes) =>
         /\ ok'
         /\ last'.err = "none"
         /\ last'.ret = <<>>
         /\ v' = v]_vars

\* A push_front(1) that returned on a full container no slot of which holds 1.
C12_Witness ==
    /\ mode = "unchecked"
    /\ ok
    /\ last.op = "push_front"
    /\ last.arg = <<1>>
    /\ last.err = "none"
    /\ v.size = CAPACITY
    /\ \A i \in Idx : v.buf[i] # 1

\* C13: unchecked mode: pop_back on a container of size 0 returns the value
\* slot 0 holds and leaves the size at 0 and every storage slot unchanged.
C13_PopBackOnEmptyUnchecked ==
    [][(mode = "unchecked" /\ v.size = 0 /\ last'.op = "pop_back") =>
         /\ ok'
         /\ last'.err = "none"
         /\ last'.ret = <<v.buf[0]>>
         /\ v' = v]_vars

\* The call returned a stale value left in slot 0 by an earlier push.
C13_Witness ==
    /\ mode = "unchecked"
    /\ ok
    /\ last.op = "pop_back"
    /\ last.err = "none"
    /\ v.size = 0
    /\ v.buf[0] = BigVal
    /\ last.ret = <<BigVal>>

\* C14: unchecked mode: pop_front on a container of size 0 returns the value
\* slot 0 holds and leaves the size at 0 and every storage slot unchanged, as
\* pop_back does.
C14_PopFrontOnEmptyUnchecked ==
    [][(mode = "unchecked" /\ v.size = 0 /\ last'.op = "pop_front") =>
         /\ ok'
         /\ last'.err = "none"
         /\ last'.ret = <<v.buf[0]>>
         /\ v' = v]_vars

\* C15: a push_front on a container with 0 <= size < CAPACITY (size ==
\* CAPACITY - 1 included) reads and writes only storage slots whose index is
\* in [0, CAPACITY), and so returns.
C15_PushFrontWithinStorage ==
    [][(v.size < CAPACITY /\ last'.op = "push_front") =>
         /\ push_front_slots(Machine(v)) \subseteq Idx
         /\ ok']_vars

\* C16: reverse() on a container of any size in [0, CAPACITY] accesses only
\* slots with index in [0, size) (none at all when size == 0), returns, and
\* leaves the size and every slot at index >= size unchanged.
C16_ReverseWithinLogicalRange ==
    [][(v.size <= CAPACITY /\ last'.op = "reverse") =>
         /\ reverse_slots(Machine(v)) \subseteq 0 .. (v.size - 1)
         /\ ok'
         /\ v'.size = v.size
         /\ \A i \in Idx : i >= v.size => v'.buf[i] = v.buf[i]]_vars

\* C17: checked mode: in every state reached from a default- or
\* full-array-constructed container by push_back, push_front, pop_back,
\* pop_front, reverse, clear and copy or move assignment, operator[] does not
\* throw runtime_error (size > capacity): out_of_range is the only exception
\* it throws.
C17_NoInvariantViolationError ==
    (mode = "checked" /\ last.op \in Subscripts) =>
        last.err \in {"none", "out_of_range"}

\* C18: clear() returns with size 0 and every one of the CAPACITY slots as it
\* was, and iteration then yields no element; the call after a clear() sees
\* an empty container: in checked mode operator[] throws out_of_range at
\* every position, push_back(x) writes slot 0 and nothing else and makes the
\* size 1, push_front(x) makes x the only element.
C18_Clear ==
    [][/\ last'.op = "clear" =>
            /\ ok'
            /\ last'.err = "none"
            /\ v' = [size |-> 0, buf |-> v.buf]
            /\ Iterate(Machine(v')) = <<>>
       /\ (last.op = "clear" /\ mode = "checked" /\ last'.op \in Subscripts) =>
            /\ last'.err = "out_of_range"
            /\ v' = v
       /\ (last.op = "clear" /\ last'.op = "push_back") =>
            /\ ok'
            /\ last'.err = "none"
            /\ v' = [size |-> 1, buf |-> [v.buf EXCEPT ![0] = last'.arg[1]]]
       /\ (last.op = "clear" /\ last'.op = "push_front") =>
            /\ ok'
            /\ last'.err = "none"
            /\ Iterate(Machine(v')) = last'.arg]_vars

\* A cleared container whose slots still hold the values of the full array it
\* was constructed from.
C18_Witness ==
    /\ ok
    /\ last.op = "clear"
    /\ v.size = 0
    /\ \A i \in Idx : v.buf[i] = BigVal

Copies == {"copy_assign", "copy_construct"}

\* C19: copying v into w, by construction or by assignment, never fails,
\* makes the size and all CAPACITY slots of w (those at index >= size
\* included) equal to those of v and leaves v unchanged; w == v is then true;
\* and a call that mutates one of the two afterwards leaves the other as it
\* was.
C19_Copy ==
    [][/\ last'.op \in Copies =>
            /\ ok'
            /\ last'.err = "none"
            /\ w'.size = v.size
            /\ \A i \in Idx : w'.buf[i] = v.buf[i]
            /\ v' = v
       /\ (last.op \in Copies /\ last'.op = "equals") =>
            /\ ok'
            /\ last'.ret = <<1>>
            /\ v' = v
            /\ w' = w
       /\ (pair.stage = 1 /\ pair'.stage = 2) =>
            IF last'.arg[1] = "v" THEN w' = w ELSE v' = v]_vars

\* A copy assignment that overwrote a full destination with a shorter source
\* whose slots past the size hold stale values.
C19_Witness ==
    /\ ok
    /\ last.op = "copy_assign"
    /\ pair.stage = 1
    /\ v.size = 1
    /\ v.buf[CAPACITY - 1] = BigVal
    /\ w = v

====
